---- MODULE Spec2Model ----
(***************************************************************************)
(* A model of gemlib_tfp:                                                  *)
(*   - mcmc/occult_events_mh.py: UncalibratedOccultUpdate, the             *)
(*     uncalibrated add/delete kernel for occult (unobserved) events;      *)
(*   - distributions/discrete_time_state_transition.py:                    *)
(*     DiscreteTimeStateTransitionModel._sample_n.                         *)
(* AddOccultProposal / DelOccultProposal (mcmc/occult_proposal.py) and     *)
(* discrete_markov_simulation (distributions/impl/discrete_markov.py) are  *)
(* imported by these files; their laws are modelled from the design text.  *)
(*                                                                         *)
(* Numbers.  A log-density is kept exactly as the probability it is the    *)
(* logarithm of, a fraction <<num, den>> in lowest terms: <<1, 6>> stands  *)
(* for log(1/6), <<1, 1>> for 0.0 and <<0, 1>> for -inf.  A difference of  *)
(* logs is the quotient of the fractions.  The uniform draw u in [0, 1)    *)
(* is kept in hundredths.                                                  *)
(***************************************************************************)
EXTENDS Integers, Sequences, FiniteSets, TLC

\* ------------------------------------------------------------------ bounds
NumMeta == 2
NumTimes == 2
NumTrans == 2
NMax == 2
InitMax == 1
MaxCalls == 2
SimMeta == 2
SimSteps == 2
SimPop == 1

\* u < 0.5, in hundredths
Half == 50

Meta == 0 .. (NumMeta - 1)
Times == 0 .. (NumTimes - 1)
Trans == 0 .. (NumTrans - 1)

None == "None"
USamples == {Half - 1, Half}
Seeds == {1}
\* t_range: <<first, end>>; the default None is every time, <<0, NumTimes>>
TRanges == {<<0, NumTimes>>, <<0, NumTimes - 1>>}
\* no draw made
NoDraw == 0 - 1
\* no OccultKernelResults yet
NoResults == [log_acceptance_correction |-> <<0, 0>>, target_log_prob |-> 0, extra |-> <<>>]

VARIABLES
    kernel,          \* self._parameters of the UncalibratedOccultUpdate
    events,          \* the chain state the driver holds: events[m][t][x]
    results,         \* the OccultKernelResults the driver holds
    current_events,  \* argument of the last call
    previous_kernel_results, \* argument of the last one_step call
    u,               \* the uniform draw of the last one_step call
    branch,          \* "add" / "del": the closure tf.cond ran in the last call
    op,              \* the last call: "init", "bootstrap_results", "one_step"
    calls,           \* number of one_step calls so far
    replica,         \* outcome of a second, identically built kernel's call
    dist,            \* the DiscreteTimeStateTransitionModel's parameters
    sim_pc,          \* _sample_n: "idle", "running", "done"
    sim_time,        \* the simulation's clock
    sim_state,       \* the simulation's state[m][compartment]
    sim_before,      \* state at the start of the last step
    sim,             \* the event matrices sim[t][m][src][dst] sampled so far
    sample           \* what _sample_n returns: sample[1][m][t][x]

kvars == <<kernel, events, results, current_events, previous_kernel_results,
           u, branch, op, calls, replica>>

svars == <<dist, sim_pc, sim_time, sim_state, sim_before, sim, sample>>

vars == <<kvars, svars>>

\* ------------------------------------------------------- exact arithmetic
RECURSIVE Gcd(_, _)
Gcd(a, b) ==
    IF b = 0 THEN a ELSE Gcd(b, a % b)

Min(a, b) ==
    IF a <= b THEN a ELSE b

\* the fraction n/d in lowest terms
Frac(n, d) ==
    LET g == Gcd(n, d) IN IF g = 0 THEN <<n, d>> ELSE <<n \div g, d \div g>>

LogZero == <<1, 1>>

\* log a - log b
LogSub(a, b) ==
    Frac(a[1] * b[2], a[2] * b[1])

\* - (log a)
LogNeg(a) ==
    <<a[2], a[1]>>

RECURSIVE SumOver(_, _)
SumOver(S, f) ==
    IF S = {} THEN 0
    ELSE LET x == CHOOSE y \in S : TRUE IN f[x] + SumOver(S \ {x}, f)

\* ------------------------------------------------------------- the tensor
\* events[m][t][x]: the axes in the order _add_events stacks its index,
\* [m, t, x], which is the order of the model's event shape
\* (metapopulations, steps, transitions).
Cells == Meta \X Times \X Trans

\* The injected target_log_prob_fn: a fixed function of the whole tensor
\* that tells any two cells apart.
target_log_prob_fn(ev) ==
    0 - SumOver(Cells, [c \in Cells |->
            (c[1] * NumTimes * NumTrans + c[2] * NumTrans + c[3] + 1)
            * ev[c[1]][c[2]][c[3]]])

\* tf.tensor_scatter_nd_add(events, stack([m, t, x]), x_star)
BadAddEventsAxis(ev, m, t, x, x_star) ==
    [ev EXCEPT ![m][t][(x + 1) % NumTrans] = @ + x_star]

_add_events(ev, m, t, x, x_star) ==
    [ev EXCEPT ![m][t][x] = @ + x_star]

\* tf.math.count_nonzero(current_events[..., target])
CountNonzero(ev, x) ==
    Cardinality({c \in Meta \X Times : ev[c[1]][c[2]][x] # 0})

\* ------------------------------------------------------------ proposals
\* The time indices a proposal may touch.
TRangeSet(t_range) ==
    t_range[1] .. (t_range[2] - 1)

Update(m, t, x_star) ==
    [m |-> m, t |-> t, x_star |-> x_star]

\* AddOccultProposal(events, topology, initial_state, n_max, t_range):
\* m uniform over the metapopulations, t uniform over t_range, x_star
\* uniform over 1 .. n_max.
AddSupport(ev, topology, n_max, t_range) ==
    {Update(m, t, x) : m \in Meta, t \in TRangeSet(t_range), x \in 1 .. n_max}

AddLogProb(ev, topology, n_max, t_range, w) ==
    IF w.m \in Meta /\ w.t \in TRangeSet(t_range) /\ w.x_star \in 1 .. n_max
    THEN <<1, NumMeta * Cardinality(TRangeSet(t_range)) * n_max>>
    ELSE <<0, 1>>

\* DelOccultProposal(events, topology, initial_state, t_range, n_max):
\* m uniform over the metapopulations holding target events in t_range,
\* t uniform over the times of m holding some, x_star uniform over
\* 1 .. min(n_max, events[m][t][target]).
HotTimes(ev, topology, t_range, m) ==
    {t \in TRangeSet(t_range) : ev[m][t][topology.target] > 0}

HotMeta(ev, topology, t_range) ==
    {m \in Meta : HotTimes(ev, topology, t_range, m) # {}}

MaxDel(ev, topology, n_max, m, t) ==
    Min(n_max, ev[m][t][topology.target])

DelSupport(ev, topology, n_max, t_range) ==
    UNION {UNION {{Update(m, t, x) : x \in 1 .. MaxDel(ev, topology, n_max, m, t)} :
                    t \in HotTimes(ev, topology, t_range, m)} :
            m \in HotMeta(ev, topology, t_range)}

DelLogProb(ev, topology, n_max, t_range, w) ==
    IF /\ w.m \in Meta
       /\ w.t \in HotTimes(ev, topology, t_range, w.m)
       /\ w.x_star \in 1 .. MaxDel(ev, topology, n_max, w.m, w.t)
    THEN <<1, Cardinality(HotMeta(ev, topology, t_range))
                * Cardinality(HotTimes(ev, topology, t_range, w.m))
                * MaxDel(ev, topology, n_max, w.m, w.t)>>
    ELSE <<0, 1>>

\* ---------------------------------------------------- the kernel: one_step
is_calibrated == FALSE

\* (u < 0.5) & (count_nonzero(current_events[..., topology.target]) > 0)
BadTakeDelete(k, cur, uu) ==
    uu < Half \/ CountNonzero(cur, k.topology.target) > 0

TakeDelete(k, cur, uu) ==
    uu < Half /\ CountNonzero(cur, k.topology.target) > 0

\* The forward proposal of add_occult_fn and what proposal.sample() may draw.
BadAddProposal(k, cur) ==
    AddSupport(cur, k.topology, k.nmax + 1, k.t_range)

AddProposal(k, cur) ==
    AddSupport(cur, k.topology, k.nmax, k.t_range)

\* The forward proposal of del_occult_fn and what proposal.sample() may draw.
DelProposal(k, cur) ==
    DelSupport(cur, k.topology, k.nmax, k.t_range)

\* reverse.log_prob(update) of add_occult_fn: a DelOccultProposal on next_state
BadAddReverseLogProb(k, cur, next_state, w) ==
    DelLogProb(cur, k.topology, k.nmax, k.t_range, w)

AddReverseLogProb(k, cur, next_state, w) ==
    DelLogProb(next_state, k.topology, k.nmax, k.t_range, w)

\* reverse.log_prob(update) of del_occult_fn: an AddOccultProposal on next_state
DelReverseLogProb(k, cur, next_state, w) ==
    AddLogProb(next_state, k.topology, k.nmax, k.t_range, w)

\* x_star=tf.cast(-update["x_star"], current_events.dtype)
BadDelDelta(w) ==
    w.x_star

DelDelta(w) ==
    0 - w.x_star

add_occult_fn(k, cur, w) ==
    LET next_state == _add_events(cur, w.m, w.t, k.topology.target, w.x_star)
        q_fwd == AddLogProb(cur, k.topology, k.nmax, k.t_range, w)
        q_rev == AddReverseLogProb(k, cur, next_state, w)
    IN  [update |-> w, next_state |-> next_state,
         log_acceptance_correction |-> LogSub(q_rev, q_fwd)]

BadDelOccultFn(k, cur, w) ==
    LET next_state == _add_events(cur, w.m, w.t, k.topology.target, DelDelta(w))
        q_fwd == DelLogProb(cur, k.topology, k.nmax, k.t_range, w)
        q_rev == DelReverseLogProb(k, cur, next_state, w)
    IN  [update |-> w, next_state |-> next_state,
         log_acceptance_correction |-> LogSub(q_fwd, q_rev)]

del_occult_fn(k, cur, w) ==
    LET next_state == _add_events(cur, w.m, w.t, k.topology.target, DelDelta(w))
        q_fwd == DelLogProb(cur, k.topology, k.nmax, k.t_range, w)
        q_rev == DelReverseLogProb(k, cur, next_state, w)
    IN  [update |-> w, next_state |-> next_state,
         log_acceptance_correction |-> LogSub(q_rev, q_fwd)]

\* next_target_log_prob = self.target_log_prob_fn(next_state)
BadNextTargetLogProb(k, cur, prev, next_state) ==
    target_log_prob_fn(cur)

NextTargetLogProb(k, cur, prev, next_state) ==
    target_log_prob_fn(next_state)

\* What one call draws: u, then the update of the proposal tf.cond selects.
\* No draw takes a seed: self.seed is stored by __init__ and never read.
Draws(k, cur) ==
    UNION {{[u |-> uu, update |-> w] :
                w \in (IF TakeDelete(k, cur, uu)
                       THEN DelProposal(k, cur) ELSE AddProposal(k, cur))} :
            uu \in USamples}

\* one_step(current_events, previous_kernel_results) with the draws d
one_step(k, cur, prev, d) ==
    LET del == TakeDelete(k, cur, d.u)
        r == IF del THEN del_occult_fn(k, cur, d.update)
                    ELSE add_occult_fn(k, cur, d.update)
    IN  [next_state |-> r.next_state,
         branch |-> IF del THEN "del" ELSE "add",
         results |->
            [log_acceptance_correction |-> r.log_acceptance_correction,
             target_log_prob |-> NextTargetLogProb(k, cur, prev, r.next_state),
             extra |-> <<r.update.m, r.update.t, r.update.x_star>>]]

BadBootstrapResults(k, init_state) ==
    [log_acceptance_correction |-> LogZero,
     target_log_prob |-> 0,
     extra |-> <<0, 0, 0>>]

bootstrap_results(k, init_state) ==
    [log_acceptance_correction |-> LogZero,
     target_log_prob |-> target_log_prob_fn(init_state),
     extra |-> <<0, 0, 0>>]

\* ------------------------------------------- the state transition model
\* stoichiometry: a row per transition, a column per compartment (S, I, R):
\* S -> I, S -> R and I -> R, so that S is a source two transitions share.
Stoichiometries ==
    {<< <<0 - 1, 1, 0>>, <<0 - 1, 0, 1>>, <<0, 0 - 1, 1>> >>}

SimMetas == 0 .. (SimMeta - 1)

Compartments(st) == 1 .. Len(st[1])

Transitions(st) == 1 .. Len(st)

\* transition_coords(stoichiometry): (source, target) of each row, the
\* places of its negative and of its positive entry
transition_coords(st) ==
    [x \in Transitions(st) |->
        <<CHOOSE c \in Compartments(st) : st[x][c] < 0,
          CHOOSE c \in Compartments(st) : st[x][c] > 0>>]

\* transition_rates(t, state): the caller's hazards, per metapopulation and
\* transition: infection at rate I, the other two at rate 1.
transition_rates(t, state) ==
    [m \in SimMetas |-> <<state[m][2], 1, 1>>]

\* 1 - exp(-hazard * time_step) is 0 exactly when the hazard is 0
ProbIsZero(hazard, time_step) ==
    hazard * time_step = 0

\* The event counts one metapopulation may draw in one step: for each source
\* compartment the transitions leaving it share its occupants, and a
\* transition of probability 0 draws none.
Leaving(st, c) ==
    {x \in Transitions(st) : transition_coords(st)[x][1] = c}

NaiveAllocations(st, state_m, rates_m, time_step) ==
    {n \in [Transitions(st) -> 0 .. SumOver(Compartments(st), state_m)] :
        /\ \A x \in Transitions(st) :
              /\ ProbIsZero(rates_m[x], time_step) => n[x] = 0
              /\ n[x] <= state_m[transition_coords(st)[x][1]]}

Allocations(st, state_m, rates_m, time_step) ==
    {n \in [Transitions(st) -> 0 .. SumOver(Compartments(st), state_m)] :
        /\ \A x \in Transitions(st) :
              ProbIsZero(rates_m[x], time_step) => n[x] = 0
        /\ \A c \in Compartments(st) :
              SumOver(Leaving(st, c), n) <= state_m[c]}

\* One draw per metapopulation 0 .. k-1, each from its own choices
RECURSIVE JointDraws(_, _)
JointDraws(choices, k) ==
    IF k = 0 THEN {<<>>}
    ELSE {[m \in 0 .. (k - 1) |-> IF m = k - 1 THEN c ELSE f[m]] :
            f \in JointDraws(choices, k - 1), c \in choices[k - 1]}

\* state + counts applied through the stoichiometry matrix
Propagate(st, state_m, n) ==
    [c \in 1 .. Len(state_m) |->
        state_m[c] + SumOver(Transitions(st), [x \in Transitions(st) |-> n[x] * st[x][c]])]

\* the step's event matrix [src][dst] of one metapopulation
EventMatrix(st, n) ==
    [i \in Compartments(st) |-> [j \in Compartments(st) |->
        SumOver({x \in Transitions(st) : transition_coords(st)[x] = <<i, j>>}, n)]]

\* _sample_n's arguments to discrete_markov_simulation
SimStart(d) ==
    d.initial_step

SimEnd(d) ==
    d.initial_step + d.num_steps * d.time_delta

\* batch_gather(sim, transition_coords(stoichiometry)), transposed to
\* (1, 0, 2) and given a leading axis of length 1
Gathered(d, s, t, m) ==
    [x \in Transitions(d.stoichiometry) |->
        s[t][m][transition_coords(d.stoichiometry)[x][1]]
               [transition_coords(d.stoichiometry)[x][2]]]

SampleOf(d, s) ==
    << [m \in SimMetas |-> [t \in 1 .. Len(s) |-> Gathered(d, s, t, m)]] >>

\* ------------------------------------------------------------- behaviour
\* The tensor a chain starts from: observed counts on every transition,
\* c target events in each cell the kernel may touch.
InitEvents(k, c) ==
    [m \in Meta |-> [t \in Times |-> [x \in Trans |->
        IF x = k.topology.target
        THEN (IF t \in TRangeSet(k.t_range) THEN c ELSE 0)
        ELSE m + t + 1]]]

Kernels ==
    [topology : {[target |-> NumTrans - 1]}, nmax : {NMax}, t_range : TRanges,
     seed : Seeds]

\* initial_state[m]: SimPop susceptibles, one infective in metapopulation 0
InitialState ==
    [m \in SimMetas |-> <<SimPop, IF m = 0 THEN 1 ELSE 0, 0>>]

Dists ==
    [stoichiometry : Stoichiometries, initial_state : {InitialState},
     initial_step : {0}, time_delta : {1, 2}, num_steps : {SimSteps}]

KernelInit ==
    /\ kernel \in Kernels
    /\ \E c \in 0 .. InitMax : events = InitEvents(kernel, c)
    /\ results = NoResults
    /\ current_events = events
    /\ previous_kernel_results = NoResults
    /\ u = NoDraw
    /\ branch = None
    /\ op = "init"
    /\ calls = 0
    /\ replica = {}

SimInit ==
    /\ dist \in Dists
    /\ sim_pc = "idle"
    /\ sim_time = 0
    /\ sim_state = dist.initial_state
    /\ sim_before = dist.initial_state
    /\ sim = <<>>
    /\ sample = <<>>

\* The kernel with a model nobody samples from.
Init ==
    /\ KernelInit
    /\ SimInit
    /\ dist.time_delta = 1

\* The model with a kernel that takes the all-zero start.
InitSim ==
    /\ KernelInit
    /\ SimInit
    /\ kernel.t_range = <<0, NumTimes>>
    /\ events = InitEvents(kernel, 0)
BootstrapResults ==
    /\ op = "init"
    /\ results' = bootstrap_results(kernel, events)
    /\ current_events' = events
    /\ previous_kernel_results' = NoResults
    /\ u' = NoDraw
    /\ branch' = None
    /\ op' = "bootstrap_results"
    /\ replica' = {}
    /\ UNCHANGED <<kernel, events, calls, svars>>

OneStep ==
    /\ op # "init"
    /\ calls < MaxCalls
    /\ \E d \in Draws(kernel, events) :
          LET out == one_step(kernel, events, results, d)
          IN  /\ events' = out.next_state
              /\ results' = out.results
              /\ branch' = out.branch
              /\ u' = d.u
    /\ current_events' = events
    /\ previous_kernel_results' = results
    /\ op' = "one_step"
    /\ calls' = calls + 1
    /\ replica' = {}
    /\ UNCHANGED <<kernel, svars>>

\* A second kernel built with the same parameters, seed included, is given
\* the arguments of the last one_step call.
OneStepReplica ==
    /\ op = "one_step"
    /\ replica = {}
    /\ \E d \in Draws(kernel, current_events) :
          LET out == one_step(kernel, current_events, previous_kernel_results, d)
          IN  replica' = {[next_state |-> out.next_state,
                           results |-> out.results,
                           branch |-> out.branch]}
    /\ UNCHANGED <<kernel, events, results, current_events,
                   previous_kernel_results, u, branch, op, calls, svars>>

Next ==
    \/ BootstrapResults
    \/ OneStep

Spec == Init /\ [][Next]_vars

NextRepro ==
    \/ BootstrapResults
    \/ OneStep
    \/ OneStepReplica

SpecRepro == Init /\ [][NextRepro]_vars

\* _sample_n is entered: discrete_markov_simulation starts at initial_step.
SampleBegin ==
    /\ sim_pc = "idle"
    /\ sim_pc' = "running"
    /\ sim_time' = SimStart(dist)
    /\ sim_state' = dist.initial_state
    /\ sim_before' = dist.initial_state
    /\ sim' = <<>>
    /\ UNCHANGED <<dist, sample, kvars>>

\* One step of the simulation loop, while the clock is before the end.
SimStep ==
    /\ sim_pc = "running"
    /\ sim_time < SimEnd(dist)
    /\ LET st == dist.stoichiometry
           rates == transition_rates(sim_time, sim_state)
           choices == [m \in SimMetas |->
                          Allocations(st, sim_state[m], rates[m], dist.time_delta)]
       IN  \E n \in JointDraws(choices, SimMeta) :
              /\ sim_state' = [m \in SimMetas |-> Propagate(st, sim_state[m], n[m])]
              /\ sim' = Append(sim, [m \in SimMetas |-> EventMatrix(st, n[m])])
    /\ sim_before' = sim_state
    /\ sim_time' = sim_time + dist.time_delta
    /\ UNCHANGED <<dist, sim_pc, sample, kvars>>

\* The loop is over: _sample_n gathers, transposes and returns.
SampleReturn ==
    /\ sim_pc = "running"
    /\ ~ (sim_time < SimEnd(dist))
    /\ sample' = SampleOf(dist, sim)
    /\ sim_pc' = "done"
    /\ UNCHANGED <<dist, sim_time, sim_state, sim_before, sim, kvars>>

NextSim ==
    \/ SampleBegin
    \/ SimStep
    \/ SampleReturn

SpecSim == InitSim /\ [][NextSim]_vars

\* ------------------------------------------------- properties: the kernel
\* The update (m, t, x_star) the last one_step call reports in results.extra
LastUpdate ==
    Update(results.extra[1], results.extra[2], results.extra[3])

LastTarget ==
    kernel.topology.target

\* C1: every entry of the event-count tensor stays >= 0 along any sequence
\* of one_step calls, each fed the state the previous one returned.
C1_NonNegativity ==
    \A c \in Cells : events[c[1]][c[2]][c[3]] >= 0

\* a second call in a row deletes every event of a cell
C1_Witness ==
    /\ op = "one_step" /\ calls >= 2 /\ branch = "del"
    /\ current_events[LastUpdate.m][LastUpdate.t][LastTarget] > 0
    /\ events[LastUpdate.m][LastUpdate.t][LastTarget] = 0

\* C2: the delete branch runs iff u < 0.5 and the target slice of
\* current_events has a non-zero entry; otherwise the add branch runs, so an
\* all-zero target is never deleted from and no count goes below zero.
C2_BranchRule ==
    op = "one_step" =>
        /\ branch \in {"add", "del"}
        /\ branch = "del" <=>
              (u < Half /\ CountNonzero(current_events, LastTarget) > 0)
        /\ CountNonzero(current_events, LastTarget) = 0 =>
              /\ branch = "add"
              /\ \A c \in Cells : events[c[1]][c[2]][c[3]] >= current_events[c[1]][c[2]][c[3]]

\* u < 0.5 on an all-zero target: the add branch ran
C2_Witness ==
    /\ op = "one_step" /\ u < Half /\ branch = "add"
    /\ CountNonzero(current_events, LastTarget) = 0

C4_Correction ==
    op = "one_step" =>
        LET w == LastUpdate
            k == kernel
            fwd == IF branch = "add"
                   THEN AddLogProb(current_events, k.topology, k.nmax, k.t_range, w)
                   ELSE DelLogProb(current_events, k.topology, k.nmax, k.t_range, w)
            rev == IF branch = "add"
                   THEN DelLogProb(events, k.topology, k.nmax, k.t_range, w)
                   ELSE AddLogProb(events, k.topology, k.nmax, k.t_range, w)
        IN  /\ fwd[1] > 0
            /\ results.log_acceptance_correction = LogSub(rev, fwd)

\* an add whose correction is not 0.0
C4_Witness ==
    /\ op = "one_step" /\ branch = "add"
    /\ results.log_acceptance_correction # LogZero
    /\ results.log_acceptance_correction[1] > 0

\* C5: the move of the opposite kind with the same update, made from
\* next_state, is one the opposite proposal can draw, returns to
\* current_events exactly, and has the negated correction.
C5_HastingsSymmetry ==
    op = "one_step" =>
        LET w == LastUpdate
            back == IF branch = "add"
                    THEN del_occult_fn(kernel, events, w)
                    ELSE add_occult_fn(kernel, events, w)
            drawable == IF branch = "add"
                        THEN DelProposal(kernel, events)
                        ELSE AddProposal(kernel, events)
        IN  /\ w \in drawable
            /\ back.next_state = current_events
            /\ back.log_acceptance_correction
                  = LogNeg(results.log_acceptance_correction)

\* a delete with a correction other than 0.0, undone by the matching add
C5_Witness ==
    /\ op = "one_step" /\ branch = "del"
    /\ results.log_acceptance_correction # LogZero
    /\ add_occult_fn(kernel, events, LastUpdate).next_state = current_events

\* C6: x_star <= nmax on the add branch, and x_star <= the count of the
\* sampled cell of current_events on the delete branch.
C6_OccultCap ==
    op = "one_step" =>
        LET w == LastUpdate
        IN  /\ branch = "add" => w.x_star <= kernel.nmax
            /\ branch = "del" =>
                  w.x_star <= current_events[w.m][w.t][LastTarget]

\* a delete of all the events a cell holds
C6_Witness ==
    /\ op = "one_step" /\ branch = "del"
    /\ LastUpdate.x_star = current_events[LastUpdate.m][LastUpdate.t][LastTarget]

\* C7: the kernel is uncalibrated: one_step returns the proposed state and
\* target_log_prob_fn evaluated on that returned state.
C7_Uncalibrated ==
    /\ ~ is_calibrated
    /\ op = "one_step" =>
          LET w == LastUpdate
              proposed == IF branch = "add"
                          THEN add_occult_fn(kernel, current_events, w).next_state
                          ELSE del_occult_fn(kernel, current_events, w).next_state
          IN  /\ events = proposed
              /\ results.target_log_prob = target_log_prob_fn(events)

\* a step whose target density differs from the one of current_events and
\* from the one previous_kernel_results holds
C7_Witness ==
    /\ op = "one_step" /\ calls >= 2
    /\ results.target_log_prob # target_log_prob_fn(current_events)
    /\ results.target_log_prob # previous_kernel_results.target_log_prob

\* C8: bootstrap_results(init_state) = (correction 0, target_log_prob_fn
\* (init_state), three zero diagnostics, as many as one_step reports); it
\* draws nothing and leaves init_state as it was.
C8_Bootstrap ==
    /\ op = "bootstrap_results" =>
          /\ results.log_acceptance_correction = LogZero
          /\ results.target_log_prob = target_log_prob_fn(current_events)
          /\ results.extra = <<0, 0, 0>>
          /\ events = current_events
          /\ u = NoDraw
    /\ op = "one_step" => Len(results.extra) = Len(<<0, 0, 0>>)

\* bootstrap on a tensor whose target density is not 0
C8_Witness ==
    /\ op = "bootstrap_results"
    /\ results.target_log_prob # 0
    /\ CountNonzero(events, LastTarget) > 0

\* C9: two kernels built with the same seed and parameters, given the same
\* current_events and previous_kernel_results, return the same branch,
\* update, next_state and results.
C9_Reproducible ==
    \A r \in replica :
        /\ r.next_state = events
        /\ r.results = results
        /\ r.branch = branch

\* ---------------------------------------------- properties: the model
\* The counts of the last step, per metapopulation and transition, as
\* _sample_n gathers them.
LastCounts(m) ==
    Gathered(dist, sim, Len(sim), m)

\* C10: at every step, for every metapopulation and source compartment, the
\* events of the transitions leaving it sum to at most its occupancy at the
\* start of the step; no compartment goes negative and every
\* metapopulation keeps the total it started with.
C10_Conservation ==
    /\ \A m \in SimMetas : \A c \in Compartments(dist.stoichiometry) :
          /\ sim_state[m][c] >= 0
          /\ Len(sim) > 0 =>
                SumOver(Leaving(dist.stoichiometry, c), LastCounts(m))
                    <= sim_before[m][c]
    /\ \A m \in SimMetas :
          SumOver(Compartments(dist.stoichiometry), sim_state[m])
              = SumOver(Compartments(dist.stoichiometry), dist.initial_state[m])

\* a step in which both transitions out of S were drawn from and S emptied
C10_Witness ==
    /\ Len(sim) > 0
    /\ \E m \in SimMetas :
          /\ sim_before[m][1] > 0 /\ sim_state[m][1] = 0
          /\ sim_before[m][2] > 0 /\ LastCounts(m)[3] > 0

====
